---- MODULE Spec2Model ----
(***************************************************************************)
(* Model of the Rubik's cube application: the 2D facelet state machine     *)
(* (rubix_2d.py), the breadth-first solver (rubix_solver.py) and the move  *)
(* controller with its animation and solver threads (rubix_cube.py).       *)
(*                                                                         *)
(* Python indices are 0-based, TLA+ tuples 1-based: a grid is a 3-tuple of *)
(* 3-tuples and the Python cell g[r][c] is g[r + 1][c + 1] here.  The      *)
(* operators keep the Python parameters (y, x, z in 0..2).                 *)
(***************************************************************************)
EXTENDS Integers, Sequences, FiniteSets, TLC

\* ------------------------------------------------------------------------
\* Bounds of the model
\* ------------------------------------------------------------------------
\* longest sequence of moves applied to the solved cube in SpecCube and
\* SpecSolver
MaxScramble == 2
\* number of manual turns (key presses applied to the cube) in one run
MaxManual == 2
\* number of distinct turn keys the user operates, the first ones of KeyOrder
NumKeys == 3
\* number of passes of the loop "while True" of breath_first_search the model
\* follows a search for: 19 passes pop the start and the 18 entries of one
\* move, and so try every sequence of one or two moves
MaxPasses == 19
\* SpecScene: number of moves applied to the scene and the Rubix2D of main()
MaxTurns == 2
\* SpecRender: number of shapes of the turning layer that are followed (the
\* layer of the code has 9 cubes of 6 shapes)
LayerShapes == 3
\* SpecRender: number of passes of rotate_cubes that are followed (the loop of
\* the code makes 90)
MaxSteps == 2
\* SpecEngine: the coordinates of the points given to the functions of
\* engine.py lie in -MaxCoord..MaxCoord
MaxCoord == 2

\* the 18 turn keys "1".."9", "i", "o", "p", "j", "k", "l", "b", "n", "m" by
\* the move they request, in the order in which the model lets the user take
\* them up (all three axes, both directions, outer and middle layers first)
KeyOrder == <<1, 6, 17, 12, 4, 8, 10, 15, 7, 2, 13, 18, 3, 5, 9, 11, 14, 16>>

UserKeys == {KeyOrder[i] : i \in 1..NumKeys}

\* ------------------------------------------------------------------------
\* rubix_2d.py
\* ------------------------------------------------------------------------
Moves == 1..18

Colours == {"yellow", "white", "green", "blue", "red", "orange"}

Sides == {"top", "bottom", "left", "right", "front", "back"}

INVERSE == [i \in 0..2 |-> 2 - i]

\* [[colour] * 3 for _ in range(3)]
Uniform(colour) == <<<<colour, colour, colour>>,
                     <<colour, colour, colour>>,
                     <<colour, colour, colour>>>>

\* Rubix2D.__init__
Rubix2D == [top    |-> Uniform("yellow"),
            bottom |-> Uniform("white"),
            left   |-> Uniform("green"),
            right  |-> Uniform("blue"),
            front  |-> Uniform("red"),
            back   |-> Uniform("orange")]

\* one pass of the loop of rotate_arr: list(zip(*arr[::-1]))
\* row r of the result is column r of the rows taken bottom-up
\* rotate_arr's pass without the reversal arr[::-1]: list(zip(*arr)), a transpose
rotate_arr_once_transposed(arr) ==
    <<<<arr[1][1], arr[2][1], arr[3][1]>>,
      <<arr[1][2], arr[2][2], arr[3][2]>>,
      <<arr[1][3], arr[2][3], arr[3][3]>>>>

rotate_arr_once(arr) ==
    <<<<arr[3][1], arr[2][1], arr[1][1]>>,
      <<arr[3][2], arr[2][2], arr[1][2]>>,
      <<arr[3][3], arr[2][3], arr[1][3]>>>>

RECURSIVE rotate_arr(_, _)
rotate_arr(arr, iters) ==
    IF iters = 0 THEN arr
    ELSE rotate_arr(rotate_arr_once(arr), iters - 1)

\* rotate_x_once with the assignment to self.left[y] left out
rotate_x_once_dropleft(rubix, y) ==
    [rubix EXCEPT !.front[y + 1] = rubix.left[y + 1],
                  !.right[y + 1] = rubix.front[y + 1],
                  !.back[y + 1]  = rubix.right[y + 1]]

\* one pass of the loop of Rubix2D.rotate_x: the four rows y change owner
rotate_x_once(rubix, y) ==
    [rubix EXCEPT !.front[y + 1] = rubix.left[y + 1],
                  !.right[y + 1] = rubix.front[y + 1],
                  !.back[y + 1]  = rubix.right[y + 1],
                  !.left[y + 1]  = rubix.back[y + 1]]

RECURSIVE rotate_x_loop(_, _, _)
rotate_x_loop(rubix, y, iters) ==
    IF iters = 0 THEN rubix
    ELSE rotate_x_loop(rotate_x_once(rubix, y), y, iters - 1)

\* rotate_x turning the top grid for the middle row as well as for row 0
Rubix2D_rotate_x_inner(rubix, y, iters) ==
    LET r == rotate_x_loop(rubix, y, iters)
    IN  [r EXCEPT !.top    = IF y <= 1 THEN rotate_arr(r.top, 3 * iters) ELSE r.top,
                  !.bottom = IF y = 2 THEN rotate_arr(r.bottom, 1 * iters) ELSE r.bottom]

Rubix2D_rotate_x(rubix, y, iters) ==
    LET r == rotate_x_loop(rubix, y, iters)
    IN  [r EXCEPT !.top    = IF y = 0 THEN rotate_arr(r.top, 3 * iters) ELSE r.top,
                  !.bottom = IF y = 2 THEN rotate_arr(r.bottom, 1 * iters) ELSE r.bottom]

\* rotate_y_once reading the live grids instead of the copies taken at the
\* start of the pass: bottom receives the column front has just been given
rotate_y_once_nocopy(rubix, x) ==
    LET inv_x == INVERSE[x]
    IN  [rubix EXCEPT
           !.front  = [@ EXCEPT ![1][x + 1] = rubix.top[1][x + 1],
                                ![2][x + 1] = rubix.top[2][x + 1],
                                ![3][x + 1] = rubix.top[3][x + 1]],
           !.bottom = [@ EXCEPT ![1][x + 1] = rubix.top[1][x + 1],
                                ![2][x + 1] = rubix.top[2][x + 1],
                                ![3][x + 1] = rubix.top[3][x + 1]],
           !.top    = [@ EXCEPT ![1][x + 1] = rubix.back[3][inv_x + 1],
                                ![2][x + 1] = rubix.back[2][inv_x + 1],
                                ![3][x + 1] = rubix.back[1][inv_x + 1]],
           !.back   = [@ EXCEPT ![1][inv_x + 1] = rubix.bottom[3][x + 1],
                                ![2][inv_x + 1] = rubix.bottom[2][x + 1],
                                ![3][inv_x + 1] = rubix.bottom[1][x + 1]]]

\* one pass of the loop of Rubix2D.rotate_y.  front, top, back and bottom on
\* the right-hand sides are the copies taken at the start of the pass:
\*   front[index][x] = top[index][x]       bottom[index][x] = front[index][x]
\*   top[index_1][x] = back[index_2][inv_x]
\*   back[index_1][inv_x] = bottom[index_2][x]
\* with (index_1, index_2) in (0, 2), (1, 1), (2, 0)
rotate_y_once(rubix, x) ==
    LET inv_x == INVERSE[x]
    IN  [rubix EXCEPT
           !.front  = [@ EXCEPT ![1][x + 1] = rubix.top[1][x + 1],
                                ![2][x + 1] = rubix.top[2][x + 1],
                                ![3][x + 1] = rubix.top[3][x + 1]],
           !.bottom = [@ EXCEPT ![1][x + 1] = rubix.front[1][x + 1],
                                ![2][x + 1] = rubix.front[2][x + 1],
                                ![3][x + 1] = rubix.front[3][x + 1]],
           !.top    = [@ EXCEPT ![1][x + 1] = rubix.back[3][inv_x + 1],
                                ![2][x + 1] = rubix.back[2][inv_x + 1],
                                ![3][x + 1] = rubix.back[1][inv_x + 1]],
           !.back   = [@ EXCEPT ![1][inv_x + 1] = rubix.bottom[3][x + 1],
                                ![2][inv_x + 1] = rubix.bottom[2][x + 1],
                                ![3][inv_x + 1] = rubix.bottom[1][x + 1]]]

RECURSIVE rotate_y_loop(_, _, _)
rotate_y_loop(rubix, x, iters) ==
    IF iters = 0 THEN rubix
    ELSE rotate_y_loop(rotate_y_once(rubix, x), x, iters - 1)

Rubix2D_rotate_y(rubix, x, iters) ==
    LET r == rotate_y_loop(rubix, x, iters)
    IN  [r EXCEPT !.left  = IF x = 0 THEN rotate_arr(r.left, 1 * iters) ELSE r.left,
                  !.right = IF x = 2 THEN rotate_arr(r.right, 3 * iters) ELSE r.right]

\* rotate_z_once with the row of bottom filled in the order of the column of
\* right (index_1 used where index_2 belongs)
rotate_z_once_noflip(rubix, z) ==
    LET inv_z == INVERSE[z]
    IN  [rubix EXCEPT
           !.top[z + 1]        = <<rubix.left[3][z + 1], rubix.left[2][z + 1],
                                   rubix.left[1][z + 1]>>,
           !.bottom[inv_z + 1] = <<rubix.right[1][inv_z + 1], rubix.right[2][inv_z + 1],
                                   rubix.right[3][inv_z + 1]>>,
           !.right  = [@ EXCEPT ![1][inv_z + 1] = rubix.top[z + 1][1],
                                ![2][inv_z + 1] = rubix.top[z + 1][2],
                                ![3][inv_z + 1] = rubix.top[z + 1][3]],
           !.left   = [@ EXCEPT ![1][z + 1] = rubix.bottom[inv_z + 1][1],
                                ![2][z + 1] = rubix.bottom[inv_z + 1][2],
                                ![3][z + 1] = rubix.bottom[inv_z + 1][3]]]

\* one pass of the loop of Rubix2D.rotate_z.  left, top, right and bottom on
\* the right-hand sides are the copies taken at the start of the pass:
\*   top[z][index_1] = left[index_2][z]
\*   bottom[inv_z][index_1] = right[index_2][inv_z]
\*   right[index][inv_z] = top[z][index]   left[index][z] = bottom[inv_z][index]
\* with (index_1, index_2) in (0, 2), (1, 1), (2, 0)
rotate_z_once(rubix, z) ==
    LET inv_z == INVERSE[z]
    IN  [rubix EXCEPT
           !.top[z + 1]        = <<rubix.left[3][z + 1], rubix.left[2][z + 1],
                                   rubix.left[1][z + 1]>>,
           !.bottom[inv_z + 1] = <<rubix.right[3][inv_z + 1], rubix.right[2][inv_z + 1],
                                   rubix.right[1][inv_z + 1]>>,
           !.right  = [@ EXCEPT ![1][inv_z + 1] = rubix.top[z + 1][1],
                                ![2][inv_z + 1] = rubix.top[z + 1][2],
                                ![3][inv_z + 1] = rubix.top[z + 1][3]],
           !.left   = [@ EXCEPT ![1][z + 1] = rubix.bottom[inv_z + 1][1],
                                ![2][z + 1] = rubix.bottom[inv_z + 1][2],
                                ![3][z + 1] = rubix.bottom[inv_z + 1][3]]]

RECURSIVE rotate_z_loop(_, _, _)
rotate_z_loop(rubix, z, iters) ==
    IF iters = 0 THEN rubix
    ELSE rotate_z_loop(rotate_z_once(rubix, z), z, iters - 1)

Rubix2D_rotate_z(rubix, z, iters) ==
    LET r == rotate_z_loop(rubix, z, iters)
    IN  [r EXCEPT !.back  = IF z = 0 THEN rotate_arr(r.back, 3 * iters) ELSE r.back,
                  !.front = IF z = 2 THEN rotate_arr(r.front, 1 * iters) ELSE r.front]

\* is_solved looking at the top only
is_solved_top(rubix) ==
    Cardinality({rubix.top[r][c] : r \in 1..3, c \in 1..3}) = 1

\* Rubix2D.is_solved: every side holds exactly one colour
is_solved(rubix) ==
    \A side \in Sides :
        Cardinality({rubix[side][r][c] : r \in 1..3, c \in 1..3}) = 1

\* rotate_side: the match statement; an index without a case changes nothing
rotate_side(index, rubix) ==
    CASE index = 1  -> Rubix2D_rotate_x(rubix, 2, 1)
      [] index = 2  -> Rubix2D_rotate_x(rubix, 1, 1)
      [] index = 3  -> Rubix2D_rotate_x(rubix, 0, 1)
      [] index = 4  -> Rubix2D_rotate_y(rubix, 0, 1)
      [] index = 5  -> Rubix2D_rotate_y(rubix, 1, 1)
      [] index = 6  -> Rubix2D_rotate_y(rubix, 2, 1)
      [] index = 7  -> Rubix2D_rotate_z(rubix, 0, 1)
      [] index = 8  -> Rubix2D_rotate_z(rubix, 1, 1)
      [] index = 9  -> Rubix2D_rotate_z(rubix, 2, 1)
      [] index = 10 -> Rubix2D_rotate_x(rubix, 2, 3)
      [] index = 11 -> Rubix2D_rotate_x(rubix, 1, 3)
      [] index = 12 -> Rubix2D_rotate_x(rubix, 0, 3)
      [] index = 13 -> Rubix2D_rotate_y(rubix, 0, 3)
      [] index = 14 -> Rubix2D_rotate_y(rubix, 1, 3)
      [] index = 15 -> Rubix2D_rotate_y(rubix, 2, 3)
      [] index = 16 -> Rubix2D_rotate_z(rubix, 0, 3)
      [] index = 17 -> Rubix2D_rotate_z(rubix, 1, 3)
      [] index = 18 -> Rubix2D_rotate_z(rubix, 2, 3)
      [] OTHER      -> rubix

\* rotate_side applied for each move of a sequence, first to last
RECURSIVE apply_moves(_, _)
apply_moves(steps, rubix) ==
    IF steps = <<>> THEN rubix
    ELSE apply_moves(Tail(steps), rotate_side(Head(steps), rubix))

\* ------------------------------------------------------------------------
\* rubix_solver.py
\* ------------------------------------------------------------------------
\* The search of breath_first_search as a record: queue is the deque of
\* (steps, rubix) entries, returned says whether "return new_steps" has been
\* executed, value is the list returned and passes counts the passes of
\* "while True" begun.

\* for_move returning steps where new_steps belongs
RECURSIVE for_move_steps(_, _, _, _)
for_move_steps(move, steps, rubix, search) ==
    IF move = 19 THEN search
    ELSE LET new_steps == steps \o <<move>>
             new_rubix == rotate_side(move, rubix)
         IN  IF is_solved(new_rubix)
             THEN [search EXCEPT !.returned = TRUE, !.value = steps]
             ELSE for_move_steps(move + 1, steps, rubix,
                      [search EXCEPT !.queue = Append(@, [steps |-> new_steps,
                                                          rubix |-> new_rubix])])

\* "for move in range(1, 19)" from move on: new_rubix is a fresh copy of rubix
\* with the move applied; a solved new_rubix returns new_steps, otherwise
\* (new_steps, new_rubix) is appended and the loop goes on
RECURSIVE for_move(_, _, _, _)
for_move(move, steps, rubix, search) ==
    IF move = 19 THEN search
    ELSE LET new_steps == steps \o <<move>>
             new_rubix == rotate_side(move, rubix)
         IN  IF is_solved(new_rubix)
             THEN [search EXCEPT !.returned = TRUE, !.value = new_steps]
             ELSE for_move(move + 1, steps, rubix,
                      [search EXCEPT !.queue = Append(@, [steps |-> new_steps,
                                                          rubix |-> new_rubix])])

\* a pass taking the entry with queue.pop(), from the right end
while_pass_pop(search) ==
    for_move(1, search.queue[Len(search.queue)].steps, search.queue[Len(search.queue)].rubix,
             [search EXCEPT !.queue = SubSeq(@, 1, Len(@) - 1), !.passes = @ + 1])

\* one pass of "while True": steps, rubix = queue.popleft(), then the for loop
while_pass(search) ==
    for_move(1, Head(search.queue).steps, Head(search.queue).rubix,
             [search EXCEPT !.queue = Tail(@), !.passes = @ + 1])

\* The code has no bound on the search.  The model follows it for MaxPasses
\* passes; a search that needs more has not returned within the model.
Beyond(search) == search.passes >= MaxPasses

\* at most n passes of "while True"
RECURSIVE while_passes(_, _)
while_passes(search, n) ==
    IF n = 0 \/ search.returned \/ Beyond(search) THEN search
    ELSE while_passes(while_pass(search), n - 1)

\* the loop "while True", 18 passes at a time
RECURSIVE while_true(_)
while_true(search) ==
    IF search.returned \/ Beyond(search) THEN search
    ELSE while_true(while_passes(search, 18))

\* breath_first_search with the copies of left and right exchanged
breath_first_search_swapped(top, front, left, right, back, bottom) ==
    LET rubix == [top |-> top, bottom |-> bottom, left |-> right,
                  right |-> left, front |-> front, back |-> back]
        passed == [top |-> top, bottom |-> bottom, left |-> left,
                   right |-> right, front |-> front, back |-> back]
    IN  IF is_solved(rubix)
        THEN [done |-> TRUE, steps |-> <<>>, passes |-> 0, args |-> passed]
        ELSE LET search == while_true([queue |-> <<[steps |-> <<>>, rubix |-> rubix]>>,
                                       returned |-> FALSE, value |-> <<>>,
                                       passes |-> 0])
             IN  [done |-> search.returned, steps |-> search.value,
                  passes |-> search.passes, args |-> passed]

\* breath_first_search without the test of the start state
breath_first_search_untested(top, front, left, right, back, bottom) ==
    LET rubix == [top |-> top, bottom |-> bottom, left |-> left,
                  right |-> right, front |-> front, back |-> back]
        search == while_true([queue |-> <<[steps |-> <<>>, rubix |-> rubix]>>,
                              returned |-> FALSE, value |-> <<>>,
                              passes |-> 0])
    IN  [done |-> search.returned, steps |-> search.value,
         passes |-> search.passes, args |-> rubix]

\* breath_first_search working on the grids passed, with no copy made of them
\* or of the state popped: a returned search leaves them solved
breath_first_search_inplace(top, front, left, right, back, bottom) ==
    LET rubix == [top |-> top, bottom |-> bottom, left |-> left,
                  right |-> right, front |-> front, back |-> back]
    IN  IF is_solved(rubix)
        THEN [done |-> TRUE, steps |-> <<>>, passes |-> 0, args |-> rubix]
        ELSE LET search == while_true([queue |-> <<[steps |-> <<>>, rubix |-> rubix]>>,
                                       returned |-> FALSE, value |-> <<>>,
                                       passes |-> 0])
             IN  [done |-> search.returned, steps |-> search.value,
                  passes |-> search.passes,
                  args |-> IF search.returned THEN apply_moves(search.value, rubix)
                                              ELSE rubix]

\* breath_first_search: the six grids are copied into a new Rubix2D; a solved
\* start returns [] at once, otherwise the queue starts with ([], rubix).
\* done tells whether the call has returned, steps is the list returned and
\* passes the number of queue entries popped (passes of "while True").  args
\* is what the six lists passed hold when the call ends: the function assigns
\* to deep copies only (lines 50-55 and 68), so they hold what they held.
breath_first_search(top, front, left, right, back, bottom) ==
    LET rubix == [top |-> top, bottom |-> bottom, left |-> left,
                  right |-> right, front |-> front, back |-> back]
    IN  IF is_solved(rubix)
        THEN [done |-> TRUE, steps |-> <<>>, passes |-> 0, args |-> rubix]
        ELSE LET search == while_true([queue |-> <<[steps |-> <<>>, rubix |-> rubix]>>,
                                       returned |-> FALSE, value |-> <<>>,
                                       passes |-> 0])
             IN  [done |-> search.returned, steps |-> search.value,
                  passes |-> search.passes, args |-> rubix]

\* ------------------------------------------------------------------------
\* graphics: cube.py, engine.py and the scene made by main()
\*
\* Coordinates are kept in half units, so that the vertices of the template
\* (-0.5 and 0.5) and of the cubes (centre -1, 0 or 1 plus the template) are
\* integers: a coordinate c of the code is 2 * c here.
\* ------------------------------------------------------------------------

\* CubeTemplate.CUBE_VERTS, in half units
CUBE_VERTS ==
    << <<-1, -1, -1>>, <<1, -1, -1>>, <<1, 1, -1>>, <<-1, 1, -1>>,
       <<-1, -1, 1>>,  <<1, -1, 1>>,  <<1, 1, 1>>,  <<-1, 1, 1>> >>

\* CubeTemplate.CUBE_POLYS; the indexes of the code count from 0, these from 1
CUBE_POLYS ==
    << <<1, 2, 3, 4>>, <<5, 6, 7, 8>>, <<1, 2, 6, 5>>,
       <<2, 3, 7, 6>>, <<3, 4, 8, 7>>, <<4, 1, 5, 8>> >>

\* Cube.__post_init__: one Shape (colour, poly) for each polygon of the
\* template, moved by the offsets x, y and z
Cube(x, y, z, colours) ==
    [x |-> x, y |-> y, z |-> z,
     cube |-> [f \in 1..6 |->
                  [colour |-> colours[f],
                   poly   |-> [v \in 1..4 |->
                                 <<CUBE_VERTS[CUBE_POLYS[f][v]][1] + 2 * x,
                                   CUBE_VERTS[CUBE_POLYS[f][v]][2] + 2 * y,
                                   CUBE_VERTS[CUBE_POLYS[f][v]][3] + 2 * z>>]]]]

\* main(), lines 37-63: the 27 Cube objects in the order of their creation,
\* which is the order of ALL_CUBES
main_cubes ==
    << Cube(0, 0, 0,    <<"black", "black", "black", "black", "black", "black">>),
       Cube(0, 0, 1,    <<"black", "orange", "black", "black", "black", "black">>),
       Cube(0, 0, -1,   <<"red", "black", "black", "black", "black", "black">>),
       Cube(1, 0, 0,    <<"black", "black", "black", "blue", "black", "black">>),
       Cube(1, 0, 1,    <<"black", "orange", "black", "blue", "black", "black">>),
       Cube(1, 0, -1,   <<"red", "black", "black", "blue", "black", "black">>),
       Cube(-1, 0, 0,   <<"black", "black", "black", "black", "black", "green">>),
       Cube(-1, 0, 1,   <<"black", "orange", "black", "black", "black", "green">>),
       Cube(-1, 0, -1,  <<"red", "black", "black", "black", "black", "green">>),
       Cube(0, 1, 0,    <<"black", "black", "black", "black", "white", "black">>),
       Cube(1, 1, 0,    <<"black", "black", "black", "blue", "white", "black">>),
       Cube(1, 1, -1,   <<"red", "black", "black", "blue", "white", "black">>),
       Cube(1, 1, 1,    <<"black", "orange", "black", "blue", "white", "black">>),
       Cube(0, 1, -1,   <<"red", "black", "black", "black", "white", "black">>),
       Cube(-1, 1, -1,  <<"red", "black", "black", "black", "white", "green">>),
       Cube(0, 1, 1,    <<"black", "orange", "black", "black", "white", "black">>),
       Cube(-1, 1, 1,   <<"black", "orange", "black", "black", "white", "green">>),
       Cube(-1, 1, 0,   <<"black", "black", "black", "black", "white", "green">>),
       Cube(1, -1, 0,   <<"black", "black", "yellow", "blue", "black", "black">>),
       Cube(1, -1, 1,   <<"black", "orange", "yellow", "blue", "black", "black">>),
       Cube(1, -1, -1,  <<"red", "black", "yellow", "blue", "black", "black">>),
       Cube(-1, -1, 0,  <<"black", "black", "yellow", "black", "black", "green">>),
       Cube(-1, -1, 1,  <<"black", "orange", "yellow", "black", "black", "green">>),
       Cube(-1, -1, -1, <<"red", "black", "yellow", "black", "black", "green">>),
       Cube(0, -1, 0,   <<"black", "black", "yellow", "black", "black", "black">>),
       Cube(0, -1, 1,   <<"black", "orange", "yellow", "black", "black", "black">>),
       Cube(0, -1, -1,  <<"red", "black", "yellow", "black", "black", "black">>) >>

\* the coordinates on axis index (0 = x, 1 = y, 2 = z) of all vertices of all
\* faces of a cube
vert_coords(cube, index) ==
    {cube.cube[f].poly[v][index + 1] : f \in 1..6, v \in 1..4}

\* filter_cubes without the lower comparison
filter_cubes_nomin(cube, index, target) ==
    \E hi \in vert_coords(cube, index) : hi > 2 * target

\* filter_cubes: max(...) > target > min(...)
filter_cubes(cube, index, target) ==
    /\ \E hi \in vert_coords(cube, index) : hi > 2 * target
    /\ \E lo \in vert_coords(cube, index) : 2 * target > lo

\* engine.rotate_x with center [0, 0, 0]: x and z turn, y stays
engine_rotate_x(vert, cos, sin) ==
    <<vert[1] * cos - vert[3] * sin, vert[2], vert[3] * cos + vert[1] * sin>>

\* engine.rotate_y with center [0, 0, 0]: y and z turn, x stays
engine_rotate_y(vert, cos, sin) ==
    <<vert[1], vert[2] * cos - vert[3] * sin, vert[3] * cos + vert[2] * sin>>

\* engine.rotate_z with the sign of the sine lost in rotated_x
engine_rotate_z_plus(vert, cos, sin) ==
    <<vert[1] * cos + vert[2] * sin, vert[2] * cos + vert[1] * sin, vert[3]>>

\* engine.rotate_z with center [0, 0, 0]: x and y turn, z stays
engine_rotate_z(vert, cos, sin) ==
    <<vert[1] * cos - vert[2] * sin, vert[2] * cos + vert[1] * sin, vert[3]>>

\* the default of the parameter scale_factor of transform_coord
scale_factor == 25

\* transform_coord raising only for z < 0
transform_coord_negative(a_vert, scale) ==
    IF a_vert[3] < 0
    THEN [raised |-> "TransformationError", value |-> <<>>]
    ELSE [raised |-> "none",
          value  |-> <<[num |-> a_vert[1] * 15 * scale, den |-> a_vert[3]],
                       [num |-> a_vert[2] * 15 * scale, den |-> a_vert[3]]>>]

\* transform_coord: TransformationError for z <= 0, otherwise the list
\* [x / z * 15 * scale_factor, y / z * 15 * scale_factor], each number kept
\* as numerator and denominator
transform_coord(a_vert, scale) ==
    IF a_vert[3] <= 0
    THEN [raised |-> "TransformationError", value |-> <<>>]
    ELSE [raised |-> "none",
          value  |-> <<[num |-> a_vert[1] * 15 * scale, den |-> a_vert[3]],
                       [num |-> a_vert[2] * 15 * scale, den |-> a_vert[3]]>>]

\* the decorator rotation for an angle that is a multiple of 90 degrees:
\* cos(radians(angle)) and sin(radians(angle))
rotation(angle) ==
    CASE angle % 360 = 0   -> [cos |-> 1,  sin |-> 0]
      [] angle % 360 = 90  -> [cos |-> 0,  sin |-> 1]
      [] angle % 360 = 180 -> [cos |-> -1, sin |-> 0]
      [] angle % 360 = 270 -> [cos |-> 0,  sin |-> -1]

\* the 90 passes of rotate_cubes on one vertex: 90 rotations by angle degrees
\* (angle is 1 or -1) make one rotation by 90 * angle degrees, whose cosine
\* is 0 and whose sine is angle
quarter_turn(rotate, vert, angle) ==
    CASE rotate = "rotate_x" -> engine_rotate_x(vert, 0, angle)
      [] rotate = "rotate_y" -> engine_rotate_y(vert, 0, angle)
      [] rotate = "rotate_z" -> engine_rotate_z(vert, 0, angle)

\* rotate_cubes run to its end on the list all: the cubes that pass
\* filter_cubes have every vertex of every shape rotated, the others stay
rotate_cubes(all, axis, filter_, rotate, angle) ==
    [i \in 1..Len(all) |->
        IF filter_cubes(all[i], axis, filter_)
        THEN [all[i] EXCEPT !.cube =
                 [f \in 1..6 |->
                     [colour |-> all[i].cube[f].colour,
                      poly   |-> [v \in 1..4 |->
                                    quarter_turn(rotate, all[i].cube[f].poly[v], angle)]]]]
        ELSE all[i]]

\* ------------------------------------------------------------------------
\* State
\* ------------------------------------------------------------------------
VARIABLES
    \* SpecCube: one Rubix2D object under rotate_side
    cube,       \* the six grids of the object
    base,       \* the grids as they were when the current probe began
    depth,      \* number of moves applied before the probe
    probe,      \* the moves applied since base
    cells,      \* a Rubix2D whose cells name their first place, under the probe
    \* SpecSolver: one call of breath_first_search
    start,      \* the six grids passed to the call
    nscramble,  \* number of moves that led from the solved state to start
    call,       \* "none" before the call, "returned", or "running"
    found,      \* what the call came to: [done, steps]
    replay,     \* a copy of start on which the returned moves are applied
    todo,       \* the returned moves not yet applied to replay
    \* Spec: the RubixCube controller, its foreground loop and its threads
    rubix_2d,   \* self.rubix_2d: the six live grids
    rotating,   \* self.rotating
    solving,    \* self.solving
    commands,   \* self.commands, the last element is the one pop() takes
    main,       \* the foreground thread inside or outside mainloop
    animations, \* the running rotate_cubes threads
    solvers,    \* the running bfs threads
    manual,     \* number of turns applied for key presses so far
    \* SpecScene: the 3D scene of main() next to the Rubix2D of main()
    cubes,      \* ALL_CUBES: the Cube objects in the order of their creation
    grids,      \* the Rubix2D object made by main()
    turns,      \* number of moves applied to both
    selected,   \* the last filter made: axis, target and the cubes that passed
    \* SpecRender: a rotate_cubes thread next to the drawing of main()
    poly,       \* for each shape of the layer, the rotations made on shape.poly
    anim,       \* the rotate_cubes thread: its pass and the shape it is at
    render,     \* the foreground: in mainloop, sorting the shapes, or drawing
    seen,       \* shape.poly as read for each shape since the frame began
    \* SpecEngine: one call of a function of engine.py
    vert,       \* the 3D coordinate passed
    called,     \* the function called and its angle, or "none"
    out,        \* what the call came to: the exception raised or the value
    \* SpecAnimation: one rotate_cubes thread and the calls of mainloop
    turning,    \* the rotate_cubes thread: its line, arguments, cubes, pass
    degrees,    \* per cube, the degrees the thread has turned its shapes by
    tick        \* the line at which the last call of mainloop returned

cubeVars == <<cube, base, depth, probe, cells>>

solverVars == <<start, nscramble, call, found, replay, todo>>

ctlVars == <<rubix_2d, rotating, solving, commands, main, animations, solvers, manual>>

sceneVars == <<cubes, grids, turns, selected>>

renderVars == <<poly, anim, render, seen>>

engineVars == <<vert, called, out>>

animVars == <<turning, degrees, tick>>

vars == <<cubeVars, solverVars, ctlVars, sceneVars, renderVars, engineVars, animVars>>

\* a Rubix2D object in which every cell holds the name of its place: side,
\* row and column (rows and columns counted from 1)
Named ==
    [side \in Sides |->
        <<<<<<side, 1, 1>>, <<side, 1, 2>>, <<side, 1, 3>>>>,
          <<<<side, 2, 1>>, <<side, 2, 2>>, <<side, 2, 3>>>>,
          <<<<side, 3, 1>>, <<side, 3, 2>>, <<side, 3, 3>>>>>>]

\* the variables of the specifications that are not running
CubeIdle ==
    /\ cube = Rubix2D
    /\ base = Rubix2D
    /\ depth = 0
    /\ probe = <<>>
    /\ cells = Named

\* RubixCube.__init__ called by main() with a new Rubix2D; the foreground is
\* outside mainloop with no local command, no Thread object and no turn made
CtlIdle ==
    /\ rubix_2d = Rubix2D
    /\ rotating = FALSE
    /\ solving = FALSE
    /\ commands = <<>>
    /\ main = [pc |-> "frame", command |-> -1, thread |-> 0, turned |-> <<>>,
               left |-> "none"]
    /\ animations = <<>>
    /\ solvers = <<>>
    /\ manual = 0

\* "ALL_CUBES = []" of cube.py: no Cube object made, nothing filtered
SceneIdle ==
    /\ cubes = <<>>
    /\ grids = Rubix2D
    /\ turns = 0
    /\ selected = [axis |-> -1, target |-> 0, passed |-> {}]

\* no rotate_cubes thread made, mainloop not called
AnimIdle ==
    /\ turning = [pc |-> "none", args |-> <<>>, cubes |-> {}, pass |-> 0, filtered |-> 0]
    /\ degrees = <<>>
    /\ tick = "none"

\* no function of engine.py called
EngineIdle ==
    /\ vert = <<0, 0, 0>>
    /\ called = [func |-> "none", angle |-> 0]
    /\ out = [raised |-> "none", value |-> <<>>]

\* no rotate_cubes thread, the foreground not drawing
RenderIdle ==
    /\ poly = <<>>
    /\ anim = [pass |-> 0, shape |-> 0]
    /\ render = [at |-> "mainloop", k |-> 0]
    /\ seen = <<>>

SolverIdle ==
    /\ start = Rubix2D
    /\ nscramble = 0
    /\ call = "none"
    /\ found = [done |-> FALSE, steps |-> <<>>, passes |-> 0, args |-> Rubix2D]
    /\ replay = Rubix2D
    /\ todo = <<>>

\* ------------------------------------------------------------------------
\* SpecCube: rotate_side applied to a Rubix2D object.  Any sequence of at
\* most MaxScramble moves leads from the solved object to a state s (base);
\* from s a move is applied, followed either by its counterpart m + 9 or by
\* the same move again, up to four times.
\* ------------------------------------------------------------------------
CubeInit ==
    /\ cube = Rubix2D
    /\ base = Rubix2D
    /\ depth = 0
    /\ probe = <<>>
    /\ cells = Named
    /\ SolverIdle
    /\ CtlIdle
    /\ SceneIdle
    /\ RenderIdle
    /\ EngineIdle
    /\ AnimIdle

\* rotate_side(m, rubix) while scrambling
CubeTurn(m) ==
    /\ probe = <<>>
    /\ depth < MaxScramble
    /\ cube' = rotate_side(m, cube)
    /\ base' = cube'
    /\ depth' = depth + 1
    /\ UNCHANGED <<probe, cells, solverVars, ctlVars, sceneVars, renderVars, engineVars, animVars>>

\* rotate_side(m, rubix) on the state s
CubeProbe(m) ==
    /\ probe = <<>>
    /\ cube' = rotate_side(m, cube)
    /\ cells' = rotate_side(m, cells)
    /\ probe' = <<m>>
    /\ UNCHANGED <<base, depth, solverVars, ctlVars, sceneVars, renderVars, engineVars, animVars>>

\* rotate_side(m + 9, rubix) right after rotate_side(m, rubix)
CubeInverse ==
    /\ Len(probe) = 1
    /\ probe[1] \in 1..9
    /\ cube' = rotate_side(probe[1] + 9, cube)
    /\ cells' = rotate_side(probe[1] + 9, cells)
    /\ probe' = Append(probe, probe[1] + 9)
    /\ UNCHANGED <<base, depth, solverVars, ctlVars, sceneVars, renderVars, engineVars, animVars>>

\* rotate_side(m, rubix) once more, up to four times in a row
CubeRepeat ==
    /\ Len(probe) \in 1..3
    /\ probe[1] \in Moves
    /\ \A i \in 1..Len(probe) : probe[i] = probe[1]
    /\ cube' = rotate_side(probe[1], cube)
    /\ cells' = rotate_side(probe[1], cells)
    /\ probe' = Append(probe, probe[1])
    /\ UNCHANGED <<base, depth, solverVars, ctlVars, sceneVars, renderVars, engineVars, animVars>>

\* indexes next to the range of the match statement of rotate_side
UnknownMoves == {0, 19}

\* rotate_side(index, rubix) on the state s with an index that has no case:
\* no case is taken, there is no default case, and the call returns None
CubeUnknown(index) ==
    /\ probe = <<>>
    /\ cube' = rotate_side(index, cube)
    /\ cells' = rotate_side(index, cells)
    /\ probe' = <<index>>
    /\ UNCHANGED <<base, depth, solverVars, ctlVars, sceneVars, renderVars, engineVars, animVars>>

CubeNext ==
    \/ \E m \in Moves : CubeTurn(m)
    \/ \E m \in Moves : CubeProbe(m)
    \/ \E index \in UnknownMoves : CubeUnknown(index)
    \/ CubeInverse
    \/ CubeRepeat

SpecCube == CubeInit /\ [][CubeNext]_vars

\* ------------------------------------------------------------------------
\* Claims on the facelet state machine (SpecCube)
\* ------------------------------------------------------------------------

\* C3: for every move m in 1..9 and every state s reached from the solved
\* state, rotate_side(m) followed by rotate_side(m + 9) leaves all six grids
\* cell for cell equal to s.
C3_InverseUndoes ==
    (Len(probe) = 2 /\ probe[1] \in 1..9 /\ probe[2] = probe[1] + 9) => cube = base

\* a scrambled s on which move 6 and then move 15 have been applied
C3_Witness ==
    /\ probe = <<6, 15>>
    /\ depth = MaxScramble
    /\ ~is_solved(base)
    /\ cube = base

\* C4: for every clockwise move m in 1..9 and every state s reached from the
\* solved state, rotate_side(m) four times in a row returns all six grids to s.
C4_FourTurnsIdentity ==
    (Len(probe) = 4 /\ probe[1] \in 1..9 /\ \A i \in 1..4 : probe[i] = probe[1])
        => cube = base

\* a scrambled s on which move 7 has been applied four times
C4_Witness ==
    /\ probe = <<7, 7, 7, 7>>
    /\ depth = MaxScramble
    /\ ~is_solved(base)
    /\ cube = base

\* number of cells of the six grids holding the colour
ColourCount(rubix, colour) ==
    Cardinality({<<side, r, c>> \in Sides \X (1..3) \X (1..3) :
                    rubix[side][r][c] = colour})

\* C5: in every state reached from the initial state by moves 1..18 each of
\* the six colours occupies exactly 9 of the 54 cells.
C5_ColourCountConserved ==
    \A colour \in Colours : ColourCount(cube, colour) = 9

\* a state in which every grid shows more than one colour
C5_Witness ==
    /\ depth = MaxScramble
    /\ \A side \in Sides :
          Cardinality({cube[side][r][c] : r \in 1..3, c \in 1..3}) > 1

\* C13: the initial Rubix2D satisfies is_solved(), and for every move m in
\* 1..18 the state obtained by applying m once to the solved state does not.
C13_SolvedThenOneMoveUnsolved ==
    /\ (depth = 0 /\ probe = <<>>) => is_solved(cube)
    /\ (depth = 0 /\ Len(probe) = 1 /\ probe[1] \in Moves) => ~is_solved(cube)
    /\ (depth = 1 /\ probe = <<>>) => ~is_solved(cube)

\* move 1, which leaves the top as it is, applied to the initial object
C13_Witness ==
    /\ depth = 0
    /\ base = Rubix2D
    /\ probe = <<1>>
    /\ cube.top = Rubix2D.top
    /\ ~is_solved(cube)

\* C19: a move identifier outside 1..18 given to rotate_side is rejected with
\* an error instead of being accepted silently: probe, the indexes of the
\* calls of rotate_side that have returned without an error, holds moves of
\* 1..18 only.
C19_UnknownMoveRejected ==
    \A i \in DOMAIN probe : probe[i] \in Moves

\* one grid after one move, against the grid before it: every cell holds what
\* the cell one quarter turn behind it held
Clockwise(face) ==
    \A r \in 1..3 : \A c \in 1..3 :
        /\ cells[face][r][c] = <<face, 4 - c, r>>
        /\ cube[face][r][c] = base[face][4 - c][r]

CounterClockwise(face) ==
    \A r \in 1..3 : \A c \in 1..3 :
        /\ cells[face][r][c] = <<face, c, 4 - r>>
        /\ cube[face][r][c] = base[face][c][4 - r]

\* C22: a turn of an outer layer rotates that face's own grid by exactly one
\* quarter turn: moves 1, 4, 9 rotate bottom, left, front clockwise
\* (new[r][c] = old[2-c][r] in Python indices), moves 3, 6, 7 rotate top,
\* right, back counter-clockwise, and moves 10..18 rotate the same grid the
\* opposite way.
C22_OwnGridQuarterTurn ==
    (Len(probe) = 1) =>
        /\ (probe[1] = 1)  => Clockwise("bottom")
        /\ (probe[1] = 4)  => Clockwise("left")
        /\ (probe[1] = 9)  => Clockwise("front")
        /\ (probe[1] = 3)  => CounterClockwise("top")
        /\ (probe[1] = 6)  => CounterClockwise("right")
        /\ (probe[1] = 7)  => CounterClockwise("back")
        /\ (probe[1] = 10) => CounterClockwise("bottom")
        /\ (probe[1] = 13) => CounterClockwise("left")
        /\ (probe[1] = 18) => CounterClockwise("front")
        /\ (probe[1] = 12) => Clockwise("top")
        /\ (probe[1] = 15) => Clockwise("right")
        /\ (probe[1] = 16) => Clockwise("back")

C22_Witness ==
    /\ probe = <<12>>
    /\ depth = MaxScramble
    /\ cube.top # base.top
    /\ Clockwise("top")

\* the four grids around the layer a move turns
ring(index) ==
    CASE index \in {1, 2, 3, 10, 11, 12} -> {"front", "right", "back", "left"}
      [] index \in {4, 5, 6, 13, 14, 15} -> {"front", "top", "back", "bottom"}
      [] index \in {7, 8, 9, 16, 17, 18} -> {"top", "left", "right", "bottom"}
      [] OTHER                            -> {}

Places == (1..3) \X (1..3)

\* the places of a grid that hold another cell than before the move, the
\* grids those cells came from, and the cells of the grid now in another grid
Arrived(face) == {p \in Places : cells[face][p[1]][p[2]] # <<face, p[1], p[2]>>}

From(face) == {cells[face][p[1]][p[2]][1] : p \in Arrived(face)}

Departed(face) ==
    {<<side, p>> \in (Sides \ {face}) \X Places : cells[side][p[1]][p[2]][1] = face}

\* C23: every clockwise quarter-turn move permutes the 54 cells, moves
\* exactly 3 cells out of each of the 4 grids around the turned layer and 3
\* into each, in one cycle through the 4 grids (for moves 1..3 row y of
\* front goes to right, right to back, back to left, left to front, in the
\* same order within the row), and leaves the other cells of those grids.
C23_StripCycle ==
    (Len(probe) = 1 /\ probe[1] \in 1..9) =>
        /\ Cardinality({cells[side][p[1]][p[2]] : <<side, p>> \in Sides \X Places}) = 54
        /\ \A face \in ring(probe[1]) :
            /\ Cardinality(Arrived(face)) = 3
            /\ Cardinality(Departed(face)) = 3
            /\ \E side \in ring(probe[1]) \ {face} :
                /\ From(face) = {side}
                /\ From(side) # {face}
        /\ \A face \in ring(probe[1]) : \A side \in ring(probe[1]) :
                (face # side) => (From(face) # From(side))
        /\ (probe[1] \in 1..3) =>
                LET row == 4 - probe[1]
                IN  \A c \in 1..3 :
                        /\ cells.right[row][c] = <<"front", row, c>>
                        /\ cells.back[row][c]  = <<"right", row, c>>
                        /\ cells.left[row][c]  = <<"back", row, c>>
                        /\ cells.front[row][c] = <<"left", row, c>>
                        /\ cube.right[row][c] = base.front[row][c]
                        /\ cube.back[row][c]  = base.right[row][c]
                        /\ cube.left[row][c]  = base.back[row][c]
                        /\ cube.front[row][c] = base.left[row][c]

C23_Witness ==
    /\ probe = <<5>>
    /\ depth = MaxScramble
    /\ From("front") = {"top"}
    /\ Cardinality(Arrived("bottom")) = 3

\* C24: a middle-layer move (2, 5, 8, 11, 14, 17) rotates no grid on itself:
\* the two grids perpendicular to the turn axis are entirely unchanged, and
\* in each of the other four grids only the 3 cells of the middle strip
\* change.
C24_MiddleLayerFrame ==
    (Len(probe) = 1 /\ probe[1] \in {2, 5, 8, 11, 14, 17}) =>
        /\ \A face \in Sides \ ring(probe[1]) :
            /\ cells[face] = Named[face]
            /\ cube[face] = base[face]
        /\ \A face \in ring(probe[1]) :
            /\ \/ Arrived(face) = {<<2, 1>>, <<2, 2>>, <<2, 3>>}
               \/ Arrived(face) = {<<1, 2>>, <<2, 2>>, <<3, 2>>}
            /\ \A p \in Places \ Arrived(face) :
                    cube[face][p[1]][p[2]] = base[face][p[1]][p[2]]

C24_Witness ==
    /\ probe = <<14>>
    /\ depth = MaxScramble
    /\ cube # base
    /\ cells.left = Named.left
    /\ Arrived("top") = {<<1, 2>>, <<2, 2>>, <<3, 2>>}

\* ------------------------------------------------------------------------
\* SpecSolver: breath_first_search called on a state reached from the solved
\* one by at most MaxScramble moves; the returned moves are then applied one
\* by one to a copy of that state.
\* ------------------------------------------------------------------------
SolverInit ==
    /\ start = Rubix2D
    /\ nscramble = 0
    /\ call = "none"
    /\ found = [done |-> FALSE, steps |-> <<>>, passes |-> 0, args |-> Rubix2D]
    /\ replay = Rubix2D
    /\ todo = <<>>
    /\ CubeIdle
    /\ CtlIdle
    /\ SceneIdle
    /\ RenderIdle
    /\ EngineIdle
    /\ AnimIdle

\* rotate_side(m, rubix) on the state that will be passed to the search
SolverScramble(m) ==
    /\ call = "none"
    /\ nscramble < MaxScramble
    /\ start' = rotate_side(m, start)
    /\ nscramble' = nscramble + 1
    /\ UNCHANGED <<call, found, replay, todo, cubeVars, ctlVars, sceneVars, renderVars, engineVars, animVars>>

\* breath_first_search(top, front, left, right, back, bottom)
SolverCall ==
    /\ call = "none"
    /\ found' = breath_first_search(start.top, start.front, start.left,
                                    start.right, start.back, start.bottom)
    /\ call' = IF found'.done THEN "returned" ELSE "running"
    /\ todo' = found'.steps
    /\ start' = found'.args
    /\ replay' = start'
    /\ UNCHANGED <<nscramble, cubeVars, ctlVars, sceneVars, renderVars, engineVars, animVars>>

\* rotate_side(move, rubix) for the next returned move
SolverApply ==
    /\ call = "returned"
    /\ todo # <<>>
    /\ replay' = rotate_side(Head(todo), replay)
    /\ todo' = Tail(todo)
    /\ UNCHANGED <<start, nscramble, call, found, cubeVars, ctlVars, sceneVars, renderVars, engineVars, animVars>>

SolverNext ==
    \/ \E m \in Moves : SolverScramble(m)
    \/ SolverCall
    \/ SolverApply

SpecSolver == SolverInit /\ [][SolverNext]_vars

\* ------------------------------------------------------------------------
\* Claims on the solver (SpecSolver)
\* ------------------------------------------------------------------------
\* all sequences of moves 1..18 of length n
RECURSIVE MoveSeqs(_)
MoveSeqs(n) ==
    IF n = 0 THEN {<<>>}
    ELSE {steps \o <<move>> : steps \in MoveSeqs(n - 1), move \in Moves}

\* C6: for every start state reached from the solved state by a bounded
\* scramble, breath_first_search returns a move sequence that, applied move by
\* move to the start state, yields a solved state, and no strictly shorter
\* sequence of moves 1..18 solves that start state.
C6_ShortestSolution ==
    (call = "returned") =>
        /\ todo = <<>> => is_solved(replay)
        /\ todo = found.steps =>
              /\ is_solved(apply_moves(found.steps, start))
              /\ \A n \in 0..(Len(found.steps) - 1) :
                    \A steps \in MoveSeqs(n) : ~is_solved(apply_moves(steps, start))

\* a start two moves away from solved: the search returned two moves after
\* popping queue entries of length 1, and both moves have been applied
C6_Witness ==
    /\ call = "returned"
    /\ nscramble = 2
    /\ Len(found.steps) = 2
    /\ found.steps[1] > 1
    /\ todo = <<>>
    /\ is_solved(replay)

\* the list a comes before the list b of the same length, or is b
LexLeq(a, b) ==
    \/ a = b
    \/ \E i \in DOMAIN a :
          /\ a[i] < b[i]
          /\ \A j \in 1..(i - 1) : a[j] = b[j]

\* C27: among all solving sequences of minimum length for a start state,
\* breath_first_search returns the lexicographically smallest one, the moves
\* compared as the integers 1..18.
C27_SmallestOfTheShortest ==
    (call = "returned" /\ todo = found.steps) =>
        \A steps \in MoveSeqs(Len(found.steps)) :
            is_solved(apply_moves(steps, start)) => LexLeq(found.steps, steps)

\* a start that two lists of two moves solve: the search returned the one
\* that comes first, and the other one begins with a greater move
C27_Witness ==
    /\ call = "returned"
    /\ todo = found.steps
    /\ Len(found.steps) = 2
    /\ \E steps \in MoveSeqs(2) :
          /\ is_solved(apply_moves(steps, start))
          /\ steps[1] > found.steps[1]

C14_OneMoveScramble ==
    (call # "none") =>
        /\ (start = rotate_side(1, Rubix2D)) =>
              (call = "returned" /\ found.steps = <<10>>)
        /\ (nscramble = 1) =>
              /\ call = "returned"
              /\ Len(found.steps) = 1
              /\ is_solved(rotate_side(found.steps[1], start))

\* the search called on the state one move 1 away from solved has returned
\* [10], and the move has been applied
C14_Witness ==
    /\ call = "returned"
    /\ nscramble = 1
    /\ start = rotate_side(1, Rubix2D)
    /\ found.steps = <<10>>
    /\ todo = <<>>
    /\ is_solved(replay)

\* ------------------------------------------------------------------------
\* rubix_cube.py: the RubixCube controller (Spec)
\*
\* The foreground thread calls mainloop once per frame.  mainloop is followed
\* statement by statement where it reads or writes what the threads share:
\*   "frame"  outside mainloop (main() draws the shapes and updates the gui)
\*   "l166"   before "if keyboard.is_pressed("x") and not self.commands"
\*   "l169"   before "command = self.commands.pop() if self.commands else -1"
\*   "l174"   before the 18 if statements
\*   "l235"   before "if thread is not None"
\* A rotate_cubes thread ends by clearing self.rotating; its 90 passes over
\* the shapes touch only vertex data, which is not part of this state.
\* A bfs thread evaluates the six arguments of the call (references to the
\* live grid objects), breath_first_search deep-copies them one by one, the
\* search runs on the copies, and then self.commands is assigned, reversed in
\* place and self.solving cleared.
\* ------------------------------------------------------------------------

\* threading.Thread(target=self.rotate_cubes, args=...) of the if statement
\* of a move: axis, filter_, rotate and angle (default 1)
turn_thread(m) ==
    CASE m = 1  -> [axis |-> 1, filter_ |-> 1,  rotate |-> "rotate_x", angle |-> 1]
      [] m = 2  -> [axis |-> 1, filter_ |-> 0,  rotate |-> "rotate_x", angle |-> 1]
      [] m = 3  -> [axis |-> 1, filter_ |-> -1, rotate |-> "rotate_x", angle |-> 1]
      [] m = 4  -> [axis |-> 0, filter_ |-> -1, rotate |-> "rotate_y", angle |-> 1]
      [] m = 5  -> [axis |-> 0, filter_ |-> 0,  rotate |-> "rotate_y", angle |-> 1]
      [] m = 6  -> [axis |-> 0, filter_ |-> 1,  rotate |-> "rotate_y", angle |-> 1]
      [] m = 7  -> [axis |-> 2, filter_ |-> 1,  rotate |-> "rotate_z", angle |-> 1]
      [] m = 8  -> [axis |-> 2, filter_ |-> 0,  rotate |-> "rotate_z", angle |-> 1]
      [] m = 9  -> [axis |-> 2, filter_ |-> -1, rotate |-> "rotate_z", angle |-> 1]
      [] m = 10 -> [axis |-> 1, filter_ |-> 1,  rotate |-> "rotate_x", angle |-> -1]
      [] m = 11 -> [axis |-> 1, filter_ |-> 0,  rotate |-> "rotate_x", angle |-> -1]
      [] m = 12 -> [axis |-> 1, filter_ |-> -1, rotate |-> "rotate_x", angle |-> -1]
      [] m = 13 -> [axis |-> 0, filter_ |-> -1, rotate |-> "rotate_y", angle |-> -1]
      [] m = 14 -> [axis |-> 0, filter_ |-> 0,  rotate |-> "rotate_y", angle |-> -1]
      [] m = 15 -> [axis |-> 0, filter_ |-> 1,  rotate |-> "rotate_y", angle |-> -1]
      [] m = 16 -> [axis |-> 2, filter_ |-> 1,  rotate |-> "rotate_z", angle |-> -1]
      [] m = 17 -> [axis |-> 2, filter_ |-> 0,  rotate |-> "rotate_z", angle |-> -1]
      [] m = 18 -> [axis |-> 2, filter_ |-> -1, rotate |-> "rotate_z", angle |-> -1]

\* the grids whose attribute of the Rubix2D object rotate_side(index) binds to
\* a new list (the result of rotate_arr); the other grids it changes are
\* changed in place, rows or cells of the existing lists being assigned
rebound(index) ==
    CASE index \in {1, 10} -> {"bottom"}
      [] index \in {3, 12} -> {"top"}
      [] index \in {4, 13} -> {"left"}
      [] index \in {6, 15} -> {"right"}
      [] index \in {7, 16} -> {"back"}
      [] index \in {9, 18} -> {"front"}
      [] OTHER             -> {}

\* the order of the arguments of breath_first_search in bfs, which is also
\* the order in which breath_first_search deep-copies them
ArgOrder == <<"top", "front", "left", "right", "back", "bottom">>

\* a bfs thread as started by solve(): nothing evaluated yet.  held is the set
\* of grids of which the thread holds a reference to the list that is still
\* the live one, arg has the contents of the lists it holds that have been
\* replaced since, rubix is the Rubix2D() made by breath_first_search, value
\* the result of the search, accepted the live grids when solve() was called.
bfs_thread(live) ==
    [at |-> "arg", k |-> 1, held |-> {}, arg |-> Rubix2D, rubix |-> Rubix2D,
     value |-> [done |-> FALSE, steps |-> <<>>, passes |-> 0, args |-> Rubix2D], accepted |-> live]

\* the foreground between two calls of mainloop; left tells where the last
\* call returned: "l164" at the return of the busy test, "l237" at the end
Frame == [pc |-> "frame", command |-> -1, thread |-> 0, turned |-> <<>>,
          left |-> "none"]

\* the test of line 163 without "or self.solving"
Busy_rotating == rotating

\* "if self.rotating or self.solving"
Busy == rotating \/ solving

\* the condition of the if statement of move m
turn_condition(m, keys, command) ==
    (m \in keys /\ command = -1) \/ command = m

\* the moves whose if statement is taken, in the order of the statements
turns_taken(keys, command) ==
    SelectSeq(<<1, 2, 3, 4, 5, 6, 7, 8, 9, 10, 11, 12, 13, 14, 15, 16, 17, 18>>,
              LAMBDA m : turn_condition(m, keys, command))

\* rotate_side(m, self.rubix_2d) as a bfs thread sees it: a list that the move
\* replaces stays as it was for the thread that holds it
rebind(t, m, live) ==
    [t EXCEPT !.held = @ \ rebound(m),
              !.arg  = [g \in Sides |->
                           IF g \in rebound(m) /\ g \in t.held THEN live[g] ELSE t.arg[g]]]

\* the if statements taken one after the other: the live grids and the bfs
\* threads after rotate_side for each move of the sequence
RECURSIVE turn_all(_, _, _)
turn_all(moves, live, threads) ==
    IF moves = <<>> THEN [rubix_2d |-> live, solvers |-> threads]
    ELSE turn_all(Tail(moves),
                  rotate_side(Head(moves), live),
                  [i \in 1..Len(threads) |-> rebind(threads[i], Head(moves), live)])

\* list.reverse()
RECURSIVE reverse(_)
reverse(list) ==
    IF list = <<>> THEN <<>> ELSE Append(reverse(Tail(list)), Head(list))

\* a sequence without its i-th element
Without(seq, i) == SubSeq(seq, 1, i - 1) \o SubSeq(seq, i + 1, Len(seq))

Init ==
    /\ rubix_2d = Rubix2D
    /\ rotating = FALSE
    /\ solving = FALSE
    /\ commands = <<>>
    /\ main = Frame
    /\ animations = <<>>
    /\ solvers = <<>>
    /\ manual = 0
    /\ CubeIdle
    /\ SolverIdle
    /\ SceneIdle
    /\ RenderIdle
    /\ EngineIdle
    /\ AnimIdle

\* mainloop without the return of line 164
mainloop_enter_through ==
    /\ main.pc = "frame"
    /\ main' = [main EXCEPT !.pc = "l166"]
    /\ UNCHANGED <<rubix_2d, rotating, solving, commands, animations, solvers, manual>>
    /\ UNCHANGED <<cubeVars, solverVars, sceneVars, renderVars, engineVars, animVars>>

\* mainloop, lines 154-164: the view keys turn the shapes only; the call
\* returns at once while a turn is animated or a search is running
mainloop_enter ==
    /\ main.pc = "frame"
    /\ main' = IF Busy THEN [main EXCEPT !.left = "l164"]
                       ELSE [main EXCEPT !.pc = "l166"]
    /\ UNCHANGED <<rubix_2d, rotating, solving, commands, animations, solvers, manual>>
    /\ UNCHANGED <<cubeVars, solverVars, sceneVars, renderVars, engineVars, animVars>>

\* mainloop, lines 166-167, and solve: with "x" pressed and no command queued
\* self.solving is set and a bfs thread started
mainloop_solve(x) ==
    /\ main.pc = "l166"
    /\ IF x /\ commands = <<>>
       THEN /\ solving' = TRUE
            /\ solvers' = Append(solvers, bfs_thread(rubix_2d))
       ELSE UNCHANGED <<solving, solvers>>
    /\ main' = [main EXCEPT !.pc = "l169"]
    /\ UNCHANGED <<rubix_2d, rotating, commands, animations, manual>>
    /\ UNCHANGED <<cubeVars, solverVars, sceneVars, renderVars, engineVars, animVars>>

\* mainloop, line 169: the last queued command, or -1
mainloop_pop ==
    /\ main.pc = "l169"
    /\ IF commands # <<>>
       THEN /\ main' = [main EXCEPT !.pc = "l174", !.command = commands[Len(commands)]]
            /\ commands' = SubSeq(commands, 1, Len(commands) - 1)
       ELSE /\ main' = [main EXCEPT !.pc = "l174", !.command = -1]
            /\ UNCHANGED commands
    /\ UNCHANGED <<rubix_2d, rotating, solving, animations, solvers, manual>>
    /\ UNCHANGED <<cubeVars, solverVars, sceneVars, renderVars, engineVars, animVars>>

\* mainloop, lines 174-232: every if statement whose key is pressed (with no
\* command) or whose move is the command makes its Thread object and calls
\* rotate_side; thread is the object made last.  keys is the set of turn keys
\* pressed; with a command the keys make no difference.
mainloop_turn(keys) ==
    /\ main.pc = "l174"
    /\ IF main.command = -1
       THEN Cardinality(keys) <= MaxManual - manual
       ELSE keys = {}
    /\ LET moves == turns_taken(keys, main.command)
           after == turn_all(moves, rubix_2d, solvers)
       IN  /\ rubix_2d' = after.rubix_2d
           /\ solvers' = after.solvers
           /\ main' = [main EXCEPT !.pc = "l235",
                                   !.thread = IF moves = <<>> THEN 0 ELSE moves[Len(moves)],
                                   !.turned = moves]
    /\ manual' = manual + Cardinality(keys)
    /\ UNCHANGED <<rotating, solving, commands, animations>>
    /\ UNCHANGED <<cubeVars, solverVars, sceneVars, renderVars, engineVars, animVars>>

\* mainloop, lines 235-237: the Thread object made last is started
mainloop_start ==
    /\ main.pc = "l235"
    /\ IF main.thread # 0
       THEN /\ rotating' = TRUE
            /\ animations' = Append(animations, turn_thread(main.thread))
       ELSE UNCHANGED <<rotating, animations>>
    /\ main' = [Frame EXCEPT !.left = "l237"]
    /\ UNCHANGED <<rubix_2d, solving, commands, solvers, manual>>
    /\ UNCHANGED <<cubeVars, solverVars, sceneVars, renderVars, engineVars, animVars>>

\* rotate_cubes, line 99: after its 90 passes the thread clears self.rotating
\* and ends
rotate_cubes_end(i) ==
    /\ i \in 1..Len(animations)
    /\ rotating' = FALSE
    /\ animations' = Without(animations, i)
    /\ UNCHANGED <<rubix_2d, solving, commands, main, solvers, manual>>
    /\ UNCHANGED <<cubeVars, solverVars, sceneVars, renderVars, engineVars, animVars>>

\* bfs, lines 113-118: the next argument of the call is evaluated, a reference
\* to the list that is the live grid at this moment
bfs_argument(i) ==
    /\ i \in 1..Len(solvers)
    /\ solvers[i].at = "arg"
    /\ LET t == solvers[i]
       IN  solvers' = [solvers EXCEPT ![i] =
               [t EXCEPT !.held = @ \cup {ArgOrder[t.k]},
                         !.k    = IF t.k = 6 THEN 1 ELSE t.k + 1,
                         !.at   = IF t.k = 6 THEN "copy" ELSE "arg"]]
    /\ UNCHANGED <<rubix_2d, rotating, solving, commands, main, animations, manual>>
    /\ UNCHANGED <<cubeVars, solverVars, sceneVars, renderVars, engineVars, animVars>>

\* breath_first_search, lines 48-55: the next grid is deep-copied from the
\* list the argument refers to, as that list is at this moment
bfs_deepcopy(i) ==
    /\ i \in 1..Len(solvers)
    /\ solvers[i].at = "copy"
    /\ LET t == solvers[i]
           g == ArgOrder[t.k]
           grid == IF g \in t.held THEN rubix_2d[g] ELSE t.arg[g]
       IN  solvers' = [solvers EXCEPT ![i] =
               [t EXCEPT !.rubix = [side \in Sides |-> IF side = g THEN grid ELSE t.rubix[side]],
                         !.held  = @ \ {g},
                         !.arg   = IF t.k = 6 THEN Rubix2D ELSE @,
                         !.k     = IF t.k = 6 THEN 1 ELSE t.k + 1,
                         !.at    = IF t.k = 6 THEN "search" ELSE "copy"]]
    /\ UNCHANGED <<rubix_2d, rotating, solving, commands, main, animations, manual>>
    /\ UNCHANGED <<cubeVars, solverVars, sceneVars, renderVars, engineVars, animVars>>

\* breath_first_search, lines 57-74, on the copies.  A search that does not
\* return within MaxPasses passes stays at "running".
bfs_search(i) ==
    /\ i \in 1..Len(solvers)
    /\ solvers[i].at = "search"
    /\ LET t == solvers[i]
           r == breath_first_search(t.rubix.top, t.rubix.front, t.rubix.left,
                                    t.rubix.right, t.rubix.back, t.rubix.bottom)
       IN  solvers' = [solvers EXCEPT ![i] =
               IF r.done THEN [t EXCEPT !.value = r, !.at = "assign"]
                         ELSE [t EXCEPT !.at = "running"]]
    /\ UNCHANGED <<rubix_2d, rotating, solving, commands, main, animations, manual>>
    /\ UNCHANGED <<cubeVars, solverVars, sceneVars, renderVars, engineVars, animVars>>

\* bfs, line 112: self.commands = the list returned
bfs_assign(i) ==
    /\ i \in 1..Len(solvers)
    /\ solvers[i].at = "assign"
    /\ commands' = solvers[i].value.steps
    /\ solvers' = [solvers EXCEPT ![i].at = "reverse"]
    /\ UNCHANGED <<rubix_2d, rotating, solving, main, animations, manual>>
    /\ UNCHANGED <<cubeVars, solverVars, sceneVars, renderVars, engineVars, animVars>>

\* bfs, line 120: self.commands.reverse(), on the list as it is now
bfs_reverse(i) ==
    /\ i \in 1..Len(solvers)
    /\ solvers[i].at = "reverse"
    /\ commands' = reverse(commands)
    /\ solvers' = [solvers EXCEPT ![i].at = "clear"]
    /\ UNCHANGED <<rubix_2d, rotating, solving, main, animations, manual>>
    /\ UNCHANGED <<cubeVars, solverVars, sceneVars, renderVars, engineVars, animVars>>

\* bfs, line 122: self.solving = False, and the thread ends
bfs_clear(i) ==
    /\ i \in 1..Len(solvers)
    /\ solvers[i].at = "clear"
    /\ solving' = FALSE
    /\ solvers' = Without(solvers, i)
    /\ UNCHANGED <<rubix_2d, rotating, commands, main, animations, manual>>
    /\ UNCHANGED <<cubeVars, solverVars, sceneVars, renderVars, engineVars, animVars>>

Next ==
    \/ mainloop_enter
    \/ \E x \in BOOLEAN : mainloop_solve(x)
    \/ mainloop_pop
    \/ \E keys \in SUBSET UserKeys : mainloop_turn(keys)
    \/ mainloop_start
    \/ \E i \in DOMAIN animations : rotate_cubes_end(i)
    \/ \E i \in DOMAIN solvers : bfs_argument(i)
    \/ \E i \in DOMAIN solvers : bfs_deepcopy(i)
    \/ \E i \in DOMAIN solvers : bfs_search(i)
    \/ \E i \in DOMAIN solvers : bfs_assign(i)
    \/ \E i \in DOMAIN solvers : bfs_reverse(i)
    \/ \E i \in DOMAIN solvers : bfs_clear(i)

Spec == Init /\ [][Next]_vars

\* ------------------------------------------------------------------------
\* Claims on the controller (Spec)
\* ------------------------------------------------------------------------

\* C1: in every interleaving of foreground ticks, the animation thread and
\* the solver thread, and for every combination of keys in one tick, no turn
\* is started (rotate_side applied to the live grids, an animation thread
\* launched) at a moment when solving or rotating is true.
C1_NoTurnWhileBusy ==
    [][(rubix_2d' # rubix_2d \/ Len(animations') > Len(animations))
           => (~solving /\ ~rotating)]_vars

\* C2: each tick applies at most one move to the live grids and starts at
\* most one animation, so that every move applied has exactly one animation
\* started for it.
C2_OneTurnPerTick ==
    /\ Len(main.turned) <= 1
    /\ main.pc = "l235" => Len(main.turned) = (IF main.thread = 0 THEN 0 ELSE 1)

\* C7: after a solve request accepted on a state reached from solved, the
\* solver's moves are replayed on the live cube in the solver's order, one
\* per idle tick, and when the queue becomes empty the live grids are solved.
\* The tick that has popped the last command and applied it is at line 235
\* with an empty queue.
C7_ReplayEndsSolved ==
    (main.pc = "l235" /\ main.command # -1 /\ commands = <<>>)
        => is_solved(rubix_2d)

\* the grids a bfs thread searches from are complete once all six are copied
Copied(t) == t.at \in {"search", "running", "assign", "reverse", "clear"}

\* C8: the state the solver searches from is the live state as it was when
\* the solve request was accepted; no turn applied by the foreground after
\* that moment changes it or is partly mixed into it.
C8_SnapshotAtAcceptance ==
    \A i \in DOMAIN solvers : Copied(solvers[i]) => solvers[i].rubix = solvers[i].accepted

\* C9: the tick never pops a move from a queue that has been assigned but not
\* yet reversed, and solving is cleared only after the queue holds the
\* reversed sequence.
C9_QueuePublishedReversed ==
    [][/\ (main.pc = "l169" /\ main'.pc = "l174" /\ main'.command # -1)
            => \A i \in DOMAIN solvers : solvers[i].at # "reverse"
       /\ (solving /\ ~solving')
            => \A i \in DOMAIN solvers : solvers[i].at \notin {"assign", "reverse"}]_vars

\* C10: at every moment at most one animation thread (rotate_cubes) and at
\* most one solver thread (bfs) is running.
C10_OneThreadOfEachKind ==
    /\ Len(animations) <= 1
    /\ Len(solvers) <= 1

\* an animation and a search both running while the foreground is between
\* two calls of mainloop, each of which returns at line 164
C10_Witness ==
    /\ Len(animations) = 1
    /\ Len(solvers) = 1
    /\ rotating /\ solving
    /\ main.pc = "frame"

\* C11: a tick entered while rotating is true (the animation of the previous
\* turn has not completed) returns at line 164: it leaves the grids, the
\* command queue and both flags unchanged and starts no thread, so a second
\* turn request right after the first one changes nothing.
C11_TickWhileRotatingNoOp ==
    [][(main.pc = "frame" /\ rotating /\ main' # main)
           => /\ main'.pc = "frame"
              /\ main'.left = "l164"
              /\ UNCHANGED <<rubix_2d, commands, rotating, solving, animations, solvers>>]_vars

\* one turn has been applied for a key, its animation is still running, and
\* the tick that came next has returned at line 164
C11_Witness ==
    /\ main.pc = "frame"
    /\ main.left = "l164"
    /\ rotating
    /\ ~solving
    /\ Len(animations) = 1
    /\ manual = 1
    /\ rubix_2d # Rubix2D

\* the bfs thread has the value returned by breath_first_search
Searched(t) == t.at \in {"assign", "reverse", "clear"}

\* C15: when the state the search starts from is solved, breath_first_search
\* returns the empty sequence at once, no queue entry being popped; the
\* controller's queue then stays empty and no move is replayed.
C15_SolvedStartEmpty ==
    \A i \in DOMAIN solvers :
        (Searched(solvers[i]) /\ is_solved(solvers[i].rubix)) =>
            /\ solvers[i].value.steps = <<>>
            /\ solvers[i].value.passes = 0
            /\ commands = <<>>
            /\ main.command = -1

\* "x" pressed on the solved cube: the search has returned [], bfs has
\* assigned and reversed it, and the queue is empty
C15_Witness ==
    /\ Len(solvers) = 1
    /\ solvers[1].at = "clear"
    /\ solvers[1].accepted = Rubix2D
    /\ is_solved(solvers[1].rubix)
    /\ solvers[1].value.done
    /\ solvers[1].value.steps = <<>>
    /\ solvers[1].value.passes = 0
    /\ commands = <<>>

\* no sequence of moves solves the grids: a colour does not hold 9 cells,
\* and every move keeps the number of cells of each colour
Unsolvable(rubix) == \E colour \in Colours : ColourCount(rubix, colour) # 9

\* C20: the search bounds its work: when it has gone on past a budget without
\* finding a solved state, as on a start from which no solved state can be
\* reached, it stops with an error, so that the solver thread ends and
\* solving is cleared.  A bfs thread at "running" has made MaxPasses passes of
\* its loop and goes on, without a value and without an error.
C20_SearchBounded ==
    \A i \in DOMAIN solvers :
        Unsolvable(solvers[i].rubix) => solvers[i].at # "running"

\* C28: while the command queue is non-empty no manual turn request is
\* applied and no new solve is started: the if statements of a tick that run
\* with commands queued apply exactly the command the tick popped, and no bfs
\* thread is added.
C28_QueueOnlyReplays ==
    [][(commands # <<>>) =>
          /\ Len(solvers') <= Len(solvers)
          /\ (main.pc = "l174" /\ main'.pc = "l235") =>
                 main'.turned = IF main.command = -1 THEN <<>> ELSE <<main.command>>]_vars

\* ------------------------------------------------------------------------
\* SpecScene: main() makes the 27 cubes and a Rubix2D; each if statement of
\* mainloop (lines 174-232) pairs rotate_side(m) on the Rubix2D with a
\* rotate_cubes thread on the cubes, followed here to the end of its 90
\* passes.  Between two moves the cubes of one layer can be filtered.
\* ------------------------------------------------------------------------
NoFilter == [axis |-> -1, target |-> 0, passed |-> {}]

SceneInit ==
    /\ cubes = main_cubes
    /\ grids = Rubix2D
    /\ turns = 0
    /\ selected = NoFilter
    /\ CubeIdle
    /\ SolverIdle
    /\ CtlIdle
    /\ RenderIdle
    /\ EngineIdle
    /\ AnimIdle

\* the if statement of move m: rotate_side(m, self.rubix_2d) and the thread
\* rotate_cubes(axis, filter_, rotate, angle) of the move, run to its end
SceneMove(m) ==
    /\ turns < MaxTurns
    /\ grids' = rotate_side(m, grids)
    /\ cubes' = rotate_cubes(cubes, turn_thread(m).axis, turn_thread(m).filter_,
                             turn_thread(m).rotate, turn_thread(m).angle)
    /\ turns' = turns + 1
    /\ selected' = NoFilter
    /\ UNCHANGED <<cubeVars, solverVars, ctlVars, renderVars, engineVars, animVars>>

\* rotate_cubes, line 90: the cubes that pass filter_cubes(cube, axis, filter_)
SceneFilter(axis, filter_) ==
    /\ selected = NoFilter
    /\ selected' = [axis |-> axis, target |-> filter_,
                    passed |-> {i \in 1..Len(cubes) : filter_cubes(cubes[i], axis, filter_)}]
    /\ UNCHANGED <<cubes, grids, turns>>
    /\ UNCHANGED <<cubeVars, solverVars, ctlVars, renderVars, engineVars, animVars>>

SceneNext ==
    \/ \E m \in Moves : SceneMove(m)
    \/ \E axis \in 0..2, filter_ \in {-1, 0, 1} : SceneFilter(axis, filter_)

SpecScene == SceneInit /\ [][SceneNext]_vars

\* ------------------------------------------------------------------------
\* Claims on the scene (SpecScene)
\* ------------------------------------------------------------------------
\* the outer plane of each side of the 3D model: axis and coordinate (in half
\* units) of the faces that lie on it
SidePlane(side) ==
    CASE side = "top"    -> [index |-> 1, at |-> -3]
      [] side = "bottom" -> [index |-> 1, at |-> 3]
      [] side = "left"   -> [index |-> 0, at |-> -3]
      [] side = "right"  -> [index |-> 0, at |-> 3]
      [] side = "front"  -> [index |-> 2, at |-> -3]
      [] side = "back"   -> [index |-> 2, at |-> 3]

\* the shapes that lie on the outer plane of a side, each named by its cube
\* and its face
Shown(all, side) ==
    LET plane == SidePlane(side)
    IN  {p \in (1..Len(all)) \X (1..6) :
            \A v \in 1..4 : all[p[1]].cube[p[2]].poly[v][plane.index + 1] = plane.at}

\* the colours a side of the 3D model shows
ShownColours(all, side) == {all[p[1]].cube[p[2]].colour : p \in Shown(all, side)}

\* number of cells of one grid that hold the colour
GridCount(grid, colour) ==
    Cardinality({<<r, c>> \in (1..3) \X (1..3) : grid[r][c] = colour})

\* C12: after any sequence of moves applied to both representations, each 3D
\* turn completed, every outer side of the 3D model shows 9 stickers, as many
\* of each colour as the grid of that side holds; so the 3D model shows six
\* sides of one colour each exactly when is_solved() holds.
C12_ModelsAgree ==
    (cubes # <<>> /\ selected = NoFilter) =>
        /\ \A side \in Sides :
              LET shown == Shown(cubes, side)
              IN  /\ Cardinality(shown) = 9
                  /\ \A colour \in Colours :
                        Cardinality({p \in shown : cubes[p[1]].cube[p[2]].colour = colour})
                            = GridCount(grids[side], colour)
        /\ is_solved(grids) <=>
              \A side \in Sides : Cardinality(ShownColours(cubes, side)) = 1

\* two moves applied to both: the grids are not solved and the top of the 3D
\* model shows more than one colour
C12_Witness ==
    /\ turns = 2
    /\ selected = NoFilter
    /\ ~is_solved(grids)
    /\ Cardinality(ShownColours(cubes, "top")) > 1
    /\ Cardinality({grids.top[r][c] : r \in 1..3, c \in 1..3}) > 1

\* sum of the coordinates on axis index of the first n vertices of a cube,
\* counted face by face
RECURSIVE coord_sum(_, _, _)
coord_sum(a_cube, index, n) ==
    IF n = 0 THEN 0
    ELSE a_cube.cube[((n - 1) \div 4) + 1].poly[((n - 1) % 4) + 1][index + 1]
         + coord_sum(a_cube, index, n - 1)

\* the centre of the cube has coordinate target on axis index: the mean of
\* its 24 vertex coordinates (in half units) is 2 * target
centre_at(a_cube, index, target) == coord_sum(a_cube, index, 24) = 24 * 2 * target

\* C18: on the unrotated scene filter_cubes with axis y and target 1 selects
\* exactly the 9 cubes constructed with y = 1; after any sequence of completed
\* quarter turns, for each axis and each target in {-1, 0, 1}, it selects
\* exactly the cubes whose current centre has that coordinate on that axis.
C18_FilterSelectsLayer ==
    (selected.axis # -1) =>
        /\ selected.passed =
              {i \in 1..Len(cubes) : centre_at(cubes[i], selected.axis, selected.target)}
        /\ (turns = 0 /\ selected.axis = 1 /\ selected.target = 1) =>
              /\ selected.passed = {i \in 1..Len(cubes) : main_cubes[i].y = 1}
              /\ Cardinality(selected.passed) = 9

\* after two turns the cubes with x = -1 are filtered: nine cubes, and not the
\* nine that were made with x = -1
C18_Witness ==
    /\ turns = 2
    /\ selected.axis = 0
    /\ selected.target = -1
    /\ Cardinality(selected.passed) = 9
    /\ selected.passed # {i \in 1..Len(cubes) : main_cubes[i].x = -1}

\* ------------------------------------------------------------------------
\* SpecRender: a rotate_cubes thread turning a layer while the loop of main()
\* draws frames.  The thread assigns shape.poly shape by shape, pass after
\* pass; the vertices of a shape after n assignments are its first vertices
\* rotated n times by angle degrees, so poly holds n for each shape.  A frame
\* reads shape.poly of every shape twice: get_sorted_shapes calls rotate_shape
\* for each shape of the list, then render_shape calls it again for each shape
\* it draws.  Nothing orders the thread and the foreground.
\* ------------------------------------------------------------------------
RenderInit ==
    /\ poly = [shape \in 1..LayerShapes |-> 0]
    /\ anim = [pass |-> 1, shape |-> 1]
    /\ render = [at |-> "mainloop", k |-> 1]
    /\ seen = <<>>
    /\ CubeIdle
    /\ SolverIdle
    /\ CtlIdle
    /\ SceneIdle
    /\ EngineIdle
    /\ AnimIdle

\* rotate_cubes, lines 92-97: shape.poly of the next shape is assigned; after
\* the last shape the thread sleeps and begins the next pass
rotate_cubes_shape ==
    /\ anim.pass \in 1..MaxSteps
    /\ poly' = [poly EXCEPT ![anim.shape] = @ + 1]
    /\ anim' = IF anim.shape < LayerShapes
               THEN [anim EXCEPT !.shape = @ + 1]
               ELSE [pass |-> anim.pass + 1, shape |-> 1]
    /\ UNCHANGED <<render, seen>>
    /\ UNCHANGED <<cubeVars, solverVars, ctlVars, sceneVars, engineVars, animVars>>

\* main(), lines 71-74: the canvas is cleared and get_sorted_shapes called
get_sorted_shapes_begin ==
    /\ render.at = "mainloop"
    /\ render' = [at |-> "sort", k |-> 1]
    /\ seen' = <<>>
    /\ UNCHANGED <<poly, anim>>
    /\ UNCHANGED <<cubeVars, solverVars, ctlVars, sceneVars, engineVars, animVars>>

\* get_sorted_shapes, lines 178-181: rotate_shape reads shape.poly of the
\* next shape of the list
get_sorted_shapes_read ==
    /\ render.at = "sort"
    /\ seen' = Append(seen, poly[render.k])
    /\ render' = IF render.k < LayerShapes
                 THEN [render EXCEPT !.k = @ + 1]
                 ELSE [at |-> "draw", k |-> 1]
    /\ UNCHANGED <<poly, anim>>
    /\ UNCHANGED <<cubeVars, solverVars, ctlVars, sceneVars, engineVars, animVars>>

\* main(), line 75, and render_shape, lines 112-115: rotate_shape reads
\* shape.poly of the next shape to draw; after the last one mainloop is called
render_shape_read ==
    /\ render.at = "draw"
    /\ seen' = Append(seen, poly[render.k])
    /\ render' = IF render.k < LayerShapes
                 THEN [render EXCEPT !.k = @ + 1]
                 ELSE [at |-> "mainloop", k |-> 1]
    /\ UNCHANGED <<poly, anim>>
    /\ UNCHANGED <<cubeVars, solverVars, ctlVars, sceneVars, engineVars, animVars>>

RenderNext ==
    \/ rotate_cubes_shape
    \/ get_sorted_shapes_begin
    \/ get_sorted_shapes_read
    \/ render_shape_read

SpecRender == RenderInit /\ [][RenderNext]_vars

\* ------------------------------------------------------------------------
\* Claims on the drawing (SpecRender)
\* ------------------------------------------------------------------------
\* C17: every render pass of the foreground loop reads, for the faces of a
\* turning layer, vertex sets of one and the same animation step: it never
\* has some faces rotated k times and others k + 1 times.
C17_FrameNotTorn ==
    \A i \in DOMAIN seen : \A j \in DOMAIN seen : seen[i] = seen[j]

\* ------------------------------------------------------------------------
\* SpecEngine: one call of transform_coord, rotate_x, rotate_y or rotate_z of
\* engine.py on a point with integer coordinates, the rotations about the
\* center [0, 0, 0] by a multiple of 90 degrees.
\* ------------------------------------------------------------------------
Points == (-MaxCoord..MaxCoord) \X (-MaxCoord..MaxCoord) \X (-MaxCoord..MaxCoord)

EngineInit ==
    /\ vert \in Points
    /\ called = [func |-> "none", angle |-> 0]
    /\ out = [raised |-> "none", value |-> <<>>]
    /\ CubeIdle
    /\ SolverIdle
    /\ CtlIdle
    /\ SceneIdle
    /\ RenderIdle
    /\ AnimIdle

\* transform_coord(vert) with the default scale_factor
call_transform_coord ==
    /\ called.func = "none"
    /\ called' = [func |-> "transform_coord", angle |-> 0]
    /\ out' = transform_coord(vert, scale_factor)
    /\ UNCHANGED vert
    /\ UNCHANGED <<cubeVars, solverVars, ctlVars, sceneVars, renderVars, animVars>>

\* rotate_x(vert, [0, 0, 0], angle)
call_rotate_x(angle) ==
    /\ called.func = "none"
    /\ called' = [func |-> "rotate_x", angle |-> angle]
    /\ out' = [raised |-> "none",
               value  |-> engine_rotate_x(vert, rotation(angle).cos, rotation(angle).sin)]
    /\ UNCHANGED vert
    /\ UNCHANGED <<cubeVars, solverVars, ctlVars, sceneVars, renderVars, animVars>>

\* rotate_y(vert, [0, 0, 0], angle)
call_rotate_y(angle) ==
    /\ called.func = "none"
    /\ called' = [func |-> "rotate_y", angle |-> angle]
    /\ out' = [raised |-> "none",
               value  |-> engine_rotate_y(vert, rotation(angle).cos, rotation(angle).sin)]
    /\ UNCHANGED vert
    /\ UNCHANGED <<cubeVars, solverVars, ctlVars, sceneVars, renderVars, animVars>>

\* rotate_z(vert, [0, 0, 0], angle)
call_rotate_z(angle) ==
    /\ called.func = "none"
    /\ called' = [func |-> "rotate_z", angle |-> angle]
    /\ out' = [raised |-> "none",
               value  |-> engine_rotate_z(vert, rotation(angle).cos, rotation(angle).sin)]
    /\ UNCHANGED vert
    /\ UNCHANGED <<cubeVars, solverVars, ctlVars, sceneVars, renderVars, animVars>>

\* the angles of the calls: quarter turns either way and a half turn
Angles == {90, 180, 270}

EngineNext ==
    \/ call_transform_coord
    \/ \E angle \in Angles : call_rotate_x(angle)
    \/ \E angle \in Angles : call_rotate_y(angle)
    \/ \E angle \in Angles : call_rotate_z(angle)

SpecEngine == EngineInit /\ [][EngineNext]_vars

\* ------------------------------------------------------------------------
\* Claims on engine.py (SpecEngine)
\* ------------------------------------------------------------------------
\* C21: transform_coord raises TransformationError for every point whose z is
\* <= 0 and returns a 2D point for every point whose z is > 0; a point behind
\* the viewer is never clamped or projected.
C21_ProjectionGuard ==
    (called.func = "transform_coord") =>
        /\ (vert[3] <= 0) => (out.raised = "TransformationError" /\ out.value = <<>>)
        /\ (vert[3] > 0) =>
              /\ out.raised = "none"
              /\ Len(out.value) = 2
              /\ out.value[1].den > 0
              /\ out.value[1].num = vert[1] * 15 * 25
              /\ out.value[2].num = vert[2] * 15 * 25

\* transform_coord called on a point in the plane of the viewer (z = 0) off
\* the axis: the error is raised and no value returned
C21_Witness ==
    /\ called.func = "transform_coord"
    /\ vert[3] = 0
    /\ vert[1] # 0
    /\ out.raised = "TransformationError"

\* C26: the three axis rotations use the same handedness: for +90 degrees
\* about the origin each function keeps the coordinate on its own axis and
\* maps the other two, taken in cyclic axis order (y, z about x; z, x about y;
\* x, y about z), from (u, v) to (-v, u).
C26_SameHandedness ==
    (called.angle = 90) =>
        /\ (called.func = "rotate_x") =>
              out.value = <<vert[1], -vert[3], vert[2]>>
        /\ (called.func = "rotate_y") =>
              out.value = <<vert[3], vert[2], -vert[1]>>
        /\ (called.func = "rotate_z") =>
              out.value = <<-vert[2], vert[1], vert[3]>>

\* ------------------------------------------------------------------------
\* SpecAnimation: the calls of mainloop with turn keys held and the
\* rotate_cubes thread they start, followed line by line: the filter of line
\* 90, the 90 passes of lines 92-97, the assignment of line 99.  A pass turns
\* every vertex of every shape of the cubes kept by angle degrees (1 or -1);
\* degrees sums these per cube, and the last pass brings the cubes to the
\* quarter turn the 90 passes add up to.  No "x" is pressed and the queue is
\* empty, so solving stays False and the command of every tick is -1.
\* ------------------------------------------------------------------------
\* "for _ in range(90)"
Passes == 90

\* the keys held during one call of mainloop: none, one, or all the user has
KeySets == {{k} : k \in UserKeys} \cup {{}, UserKeys}

Still == [i \in 1..Len(main_cubes) |-> 0]

AnimInit ==
    /\ cubes = main_cubes
    /\ grids = Rubix2D
    /\ turns = 0
    /\ selected = NoFilter
    /\ turning = [pc |-> "none", args |-> <<>>, cubes |-> {}, pass |-> 0, filtered |-> 0]
    /\ degrees = Still
    /\ tick = "none"
    /\ CtlIdle
    /\ CubeIdle
    /\ SolverIdle
    /\ RenderIdle
    /\ EngineIdle

\* mainloop, lines 163-164: the call returns while a turn or a search runs
anim_mainloop_return ==
    /\ Busy
    /\ tick' = "l164"
    /\ UNCHANGED <<turning, degrees>>
    /\ UNCHANGED <<cubeVars, solverVars, ctlVars, sceneVars, renderVars, engineVars>>

\* mainloop, lines 163-237, with the keys held: every if statement taken
\* applies its move to rubix_2d and makes a thread, the last thread made is
\* started after rotating is set
anim_mainloop(keys) ==
    /\ ~Busy
    /\ keys # {} => manual < MaxManual
    /\ LET taken == turns_taken(keys, -1)
       IN  /\ rubix_2d' = turn_all(taken, rubix_2d, <<>>).rubix_2d
           /\ IF taken # <<>>
              THEN /\ rotating' = TRUE
                   /\ turning' = [pc |-> "l90", args |-> turn_thread(taken[Len(taken)]),
                                  cubes |-> {}, pass |-> 0, filtered |-> 0]
                   /\ degrees' = Still
                   /\ manual' = manual + 1
              ELSE UNCHANGED <<rotating, turning, degrees, manual>>
    /\ tick' = "l237"
    /\ UNCHANGED <<solving, commands, main, animations, solvers>>
    /\ UNCHANGED <<cubeVars, solverVars, sceneVars, renderVars, engineVars>>

\* rotate_cubes, line 90: the cubes of the layer are filtered out of self.cubes
rotate_cubes_filter ==
    /\ turning.pc = "l90"
    /\ turning' = [turning EXCEPT
                      !.pc = "l92",
                      !.cubes = {i \in 1..Len(cubes) :
                                    filter_cubes(cubes[i], turning.args.axis, turning.args.filter_)},
                      !.filtered = @ + 1]
    /\ UNCHANGED <<degrees, tick>>
    /\ UNCHANGED <<cubeVars, solverVars, ctlVars, sceneVars, renderVars, engineVars>>

\* the loop of rotate_cubes left one pass early
rotate_cubes_pass_short ==
    /\ turning.pc = "l92"
    /\ degrees' = [i \in DOMAIN degrees |->
                      IF i \in turning.cubes THEN degrees[i] + turning.args.angle
                      ELSE degrees[i]]
    /\ turning' = [turning EXCEPT !.pass = @ + 1,
                                  !.pc = IF turning.pass + 2 = Passes THEN "l99" ELSE "l92"]
    /\ cubes' = IF turning.pass + 2 = Passes
                THEN rotate_cubes(cubes, turning.args.axis, turning.args.filter_,
                                  turning.args.rotate, turning.args.angle)
                ELSE cubes
    /\ UNCHANGED <<grids, turns, selected, tick>>
    /\ UNCHANGED <<cubeVars, solverVars, ctlVars, renderVars, engineVars>>

\* rotate_cubes, lines 92-97: one pass of "for _ in range(90)" over the cubes
\* kept and the sleep after it; after the last pass the loop is left
rotate_cubes_pass ==
    /\ turning.pc = "l92"
    /\ degrees' = [i \in DOMAIN degrees |->
                      IF i \in turning.cubes THEN degrees[i] + turning.args.angle
                      ELSE degrees[i]]
    /\ turning' = [turning EXCEPT !.pass = @ + 1,
                                  !.pc = IF turning.pass + 1 = Passes THEN "l99" ELSE "l92"]
    /\ cubes' = IF turning.pass + 1 = Passes
                THEN rotate_cubes(cubes, turning.args.axis, turning.args.filter_,
                                  turning.args.rotate, turning.args.angle)
                ELSE cubes
    /\ UNCHANGED <<grids, turns, selected, tick>>
    /\ UNCHANGED <<cubeVars, solverVars, ctlVars, renderVars, engineVars>>

\* rotate_cubes, line 99: "self.rotating = False", and the thread ends
rotate_cubes_clear ==
    /\ turning.pc = "l99"
    /\ rotating' = FALSE
    /\ turning' = [turning EXCEPT !.pc = "done"]
    /\ UNCHANGED <<degrees, tick>>
    /\ UNCHANGED <<rubix_2d, solving, commands, main, animations, solvers, manual>>
    /\ UNCHANGED <<cubeVars, solverVars, sceneVars, renderVars, engineVars>>

AnimNext ==
    \/ anim_mainloop_return
    \/ \E keys \in KeySets : anim_mainloop(keys)
    \/ rotate_cubes_filter
    \/ rotate_cubes_pass
    \/ rotate_cubes_clear

SpecAnimation == AnimInit /\ [][AnimNext]_vars

\* the thread is scheduled as long as it has a statement to run, and
\* time.sleep(0.01) returns
FairAnimation ==
    SpecAnimation /\ WF_vars(rotate_cubes_filter \/ rotate_cubes_pass \/ rotate_cubes_clear)

\* ------------------------------------------------------------------------
\* Claims on the animation (FairAnimation)
\* ------------------------------------------------------------------------
\* the thread has been started and has not run line 99 yet
Alive == turning.pc \in {"l90", "l92", "l99"}

\* C25: once an animation starts it runs to completion: the cubes of the
\* layer are selected once, at the start; each of exactly 90 passes turns
\* their shapes by one degree; rotating is true throughout and is cleared
\* only after the last pass; with the thread scheduled fairly rotating
\* becomes false in the end; nothing cancels or restarts the animation midway.
C25_AnimationCompletes ==
    /\ [](/\ Alive => rotating
          /\ ~rotating => turning.pc \in {"none", "done"}
          /\ turning.pc \in {"l92", "l99", "done"} =>
                /\ turning.filtered = 1
                /\ Cardinality(turning.cubes) = 9
          /\ turning.pc \in {"l90", "l92"} => turning.pass < Passes
          /\ turning.pc \in {"l99", "done"} => turning.pass = Passes
          /\ turning.pc # "none" =>
                \A i \in DOMAIN degrees :
                    degrees[i] = IF i \in turning.cubes
                                 THEN turning.pass * turning.args.angle ELSE 0)
    /\ [][/\ (rotating /\ ~rotating') =>
                (turning.pc = "l99" /\ turning.pass = Passes /\ turning'.pc = "done")
          /\ Alive =>
                /\ turning'.args = turning.args
                /\ turning'.pass \in {turning.pass, turning.pass + 1}
                /\ turning'.pc # "none"
                /\ (turning'.pc = "l90") => (turning.pc = "l90")
                /\ (turning.pc # "l90") => (turning'.cubes = turning.cubes)]_vars
    /\ (rotating ~> ~rotating)

\* the second animation of a run has made its 90 passes on a layer that the
\* first one had turned, and rotating has been cleared
C25_Witness ==
    /\ manual = 2
    /\ turning.pc = "done"
    /\ turning.pass = 90
    /\ ~rotating
    /\ tick = "l164"
    /\ \E i \in turning.cubes : degrees[i] \in {90, -90} /\ cubes[i] # main_cubes[i]

====
